---------------------------- MODULE Spec2Model ----------------------------
(***************************************************************************)
(* TurtleStrategy.handle (quant/strategy/turtle_strategy.py) as a state    *)
(* machine.  The loop "for symbol in self.symbol_list" takes two steps per  *)
(* symbol: the loop header binds the next symbol, then the loop body runs  *)
(* to its end.  The variable out is the sequence the generator has yielded *)
(* so far.                                                                 *)
(*                                                                         *)
(* Floats are integers plus the value NaN.  Every comparison with NaN is   *)
(* false and every arithmetic result with a NaN operand is NaN, as in      *)
(* IEEE-754.  All other values are small integers, for which the float     *)
(* arithmetic of the code is exact; "0.5 * atr + p <= q" is evaluated as   *)
(* "atr + 2 * p <= 2 * q".                                                 *)
(***************************************************************************)
EXTENDS Integers, Sequences, FiniteSets

VARIABLES
    symbol_list,    \* self.symbol_list
    plate_symbols,  \* self.data_handler.plate_symbols
    benchmark,      \* self.data_handler.benchmark
    hist_index,     \* self.data_handler.hist_index
    pos,            \* position in symbol_list of the loop variable symbol
    pc,             \* "for": at the loop header; "body": in the loop body;
                    \* "done": generator exhausted; "raised": exception left handle
    view,           \* what the data handler and the portfolio answered in
                    \* this iteration
    err,            \* exception raised inside the try block of this iteration
    trace,          \* per finished iteration, the exit of the loop body it took
    out             \* the values yielded so far

vars == <<symbol_list, plate_symbols, benchmark, hist_index, pos, pc, view,
          err, trace, out>>

---------------------------------------------------------------------------
(* Bounds of the model *)

MaxPrice == 5          \* current close price ranges over 0..MaxPrice and NaN
MinHistIndex == 18     \* hist_index ranges over MinHistIndex..MaxHistIndex
MaxHistIndex == 19
MaxFills == 5          \* a position holds 4..MaxFills fills
Split == 10            \* bars with index < Split carry the "old" level

(* Program constants *)

ShortWindow == 10      \* get_hist_bars_values(symbol, ..., 10)
LongWindow == 20       \* get_hist_bars_values(symbol, ..., 20)
MaxFillEvents == 4     \* if hist_fill_events_len > 4: continue

---------------------------------------------------------------------------
(* Floats *)

NaN == -1000

IsNaN(x) == x = NaN

Lt(a, b) == ~IsNaN(a) /\ ~IsNaN(b) /\ a < b
Gt(a, b) == ~IsNaN(a) /\ ~IsNaN(b) /\ a > b
Le(a, b) == ~IsNaN(a) /\ ~IsNaN(b) /\ a <= b
Ge(a, b) == ~IsNaN(a) /\ ~IsNaN(b) /\ a >= b

Add(a, b) == IF IsNaN(a) \/ IsNaN(b) THEN NaN ELSE a + b
Sub(a, b) == IF IsNaN(a) \/ IsNaN(b) THEN NaN ELSE a - b
Times(k, a) == IF IsNaN(a) THEN NaN ELSE k * a

Range(s) == {s[k] : k \in DOMAIN s}

\* ndarray.max(): NaN if any element is NaN
MaxOf(s) ==
    IF s = <<>> \/ (\E k \in DOMAIN s : IsNaN(s[k])) THEN NaN
    ELSE CHOOSE m \in Range(s) : \A x \in Range(s) : x <= m

\* ndarray.min(): NaN if any element is NaN
MinOf(s) ==
    IF s = <<>> \/ (\E k \in DOMAIN s : IsNaN(s[k])) THEN NaN
    ELSE CHOOSE m \in Range(s) : \A x \in Range(s) : m <= x

---------------------------------------------------------------------------
(* The data handler and the portfolio *)

\* get_hist_bars_values(symbol, field, n): the n most recent values of the
\* field, fewer when the history is shorter
get_hist_bars_values(bars, n) ==
    IF n >= Len(bars) THEN bars
    ELSE SubSeq(bars, Len(bars) - n + 1, Len(bars))

\* A history of len bars (bar index k - 1 at position k): level old before
\* bar Split, level recent from bar Split on
Bars(old, recent, len) == [k \in 1..len |-> IF k <= Split THEN old ELSE recent]

Prices == (0..MaxPrice) \cup {NaN}
Atrs == {3, NaN}
OldHighs == {3, 6, NaN}
RecentHighs == {3, NaN}
OldLows == {0, 3, NaN}
RecentLows == {3, NaN}

\* The market data of one symbol at bar h
MarketViews(h) ==
    {[price |-> p, atr |-> a,
      high |-> Bars(oh, rh, h + 1), low |-> Bars(ol, rl, h + 1)] :
        p \in Prices, a \in Atrs, oh \in OldHighs, rh \in RecentHighs,
        ol \in OldLows, rl \in RecentLows}

BUY == "BUY"
SELL == "SELL"

FillAtrs == {1, 2}
LastFillPrices == {3, 4}
FirstFillIndexes == {Split - 1, Split}
FillCounts == MaxFillEvents..MaxFills

\* The fills of a position of n fills: all in direction d, all carrying the
\* atr and bar index recorded at the first fill's signal, the last one
\* filled at price last and the earlier ones one unit before it
Fills(d, fatr, fidx, last, n) ==
    [k \in 1..n |->
        [direction |-> d,
         fill_price |-> IF k = n THEN last
                        ELSE IF d = BUY THEN last - 1 ELSE last + 1,
         attr |-> [atr |-> fatr, index |-> fidx]]]

Positions ==
    {Fills(d, fatr, fidx, last, n) :
        d \in {BUY, SELL}, fatr \in FillAtrs, fidx \in FirstFillIndexes,
        last \in LastFillPrices, n \in FillCounts}

\* Nothing read yet
NoView ==
    [price |-> NaN, atr |-> NaN, high |-> <<>>, low |-> <<>>,
     fills |-> <<>>, shortable |-> FALSE]

WithMarket(m) ==
    [price |-> m.price, atr |-> m.atr, high |-> m.high, low |-> m.low,
     fills |-> <<>>, shortable |-> FALSE]

has_position(v) == Len(v.fills) > 0
get_first_fill_event(v) == v.fills[1]
get_last_fill_event(v) == v.fills[Len(v.fills)]
get_fill_events_len(v) == Len(v.fills)

---------------------------------------------------------------------------
(* TurtleStrategy *)

rule_id == "TurtleStrategy"

OpenLong == "OpenLong"
OpenShort == "OpenShort"
Extend == "Extend"
Close == "Close"

\* yield None
None == [signal_type |-> "None"]

\* Signal with "index": hist_index in place of hist_index + 1
Signal_CurrentIndex(symbol, signal_type, current_atr, reason) ==
    [symbol |-> symbol, signal_type |-> signal_type, confidence |-> 1,
     attr |-> [index |-> hist_index, atr |-> current_atr,
               rule_id |-> rule_id, reason |-> reason]]

\* Signal(symbol=..., signal_type=..., confidence=1.0, attr={...})
Signal(symbol, signal_type, current_atr, reason) ==
    [symbol |-> symbol, signal_type |-> signal_type, confidence |-> 1,
     attr |-> [index |-> hist_index + 1, atr |-> current_atr,
               rule_id |-> rule_id, reason |-> reason]]

\* Filtered without the benchmark test
Filtered_PlateOnly(symbol) == symbol \in plate_symbols

\* symbol in plate_symbols or symbol == benchmark
Filtered(symbol) == symbol \in plate_symbols \/ symbol = benchmark

highest10(v) == MaxOf(get_hist_bars_values(v.high, ShortWindow))
lowest10(v) == MinOf(get_hist_bars_values(v.low, ShortWindow))
highest20(v) == MaxOf(get_hist_bars_values(v.high, LongWindow))
lowest20(v) == MinOf(get_hist_bars_values(v.low, LongWindow))

\* math.isnan(highest10) or math.isnan(lowest10) or math.isnan(highest20)
\* or math.isnan(lowest20)
HasNaNExtrema(v) ==
    \/ IsNaN(highest10(v))
    \/ IsNaN(lowest10(v))
    \/ IsNaN(highest20(v))
    \/ IsNaN(lowest20(v))

\* Caught without the KeyError handler
Caught_ValueErrorOnly(e) == e \in {"ValueError"}

\* except ValueError ... except KeyError
Caught(e) == e \in {"ValueError", "KeyError"}

\* TooManyFills with the guard one fill late
TooManyFills_OffByOne(n) == n > MaxFillEvents + 1

\* hist_fill_events_len > 4
TooManyFills(n) == n > MaxFillEvents

\* hold_days = hist_index - fist_fill.attr['index'] + 1
hold_days(fist_fill) == hist_index - fist_fill.attr.index + 1

\* LongDecision with a strict Extend test
LongDecision_StrictExtend(symbol, v) ==
    LET fist_fill == get_first_fill_event(v)
        last_fill == get_last_fill_event(v)
        hold_max == MaxOf(get_hist_bars_values(v.high, hold_days(fist_fill)))
    IN  IF Lt(Add(fist_fill.attr.atr, Times(2, last_fill.fill_price)),
              Times(2, v.price))
        THEN <<Signal(symbol, Extend, v.atr,
                    "Extend: increase more the 0.5 * atr since last buy")>>
        ELSE IF Gt(Sub(hold_max, Times(2, fist_fill.attr.atr)), v.price)
        THEN <<Signal(symbol, Close, v.atr,
                    "Close: go down 2 * atr relative with the max during holding")>>
        ELSE IF Gt(lowest10(v), v.price)
        THEN <<Signal(symbol, Close, v.atr, "Close: go lower then lowest10")>>
        ELSE <<None>>

\* LongDecision with the 10-bar-low test before the stop test
LongDecision_LowFirst(symbol, v) ==
    LET fist_fill == get_first_fill_event(v)
        last_fill == get_last_fill_event(v)
        hold_max == MaxOf(get_hist_bars_values(v.high, hold_days(fist_fill)))
    IN  IF Le(Add(fist_fill.attr.atr, Times(2, last_fill.fill_price)),
              Times(2, v.price))
        THEN <<Signal(symbol, Extend, v.atr,
                    "Extend: increase more the 0.5 * atr since last buy")>>
        ELSE IF Gt(lowest10(v), v.price)
        THEN <<Signal(symbol, Close, v.atr, "Close: go lower then lowest10")>>
        ELSE IF Gt(Sub(hold_max, Times(2, fist_fill.attr.atr)), v.price)
        THEN <<Signal(symbol, Close, v.atr,
                    "Close: go down 2 * atr relative with the max during holding")>>
        ELSE <<None>>

\* The branch "if fist_fill.direction == FillEvent.BUY"
LongDecision(symbol, v) ==
    LET fist_fill == get_first_fill_event(v)
        last_fill == get_last_fill_event(v)
        hold_max == MaxOf(get_hist_bars_values(v.high, hold_days(fist_fill)))
    IN  IF Le(Add(fist_fill.attr.atr, Times(2, last_fill.fill_price)),
              Times(2, v.price))
        THEN <<Signal(symbol, Extend, v.atr,
                    "Extend: increase more the 0.5 * atr since last buy")>>
        ELSE IF Gt(Sub(hold_max, Times(2, fist_fill.attr.atr)), v.price)
        THEN <<Signal(symbol, Close, v.atr,
                    "Close: go down 2 * atr relative with the max during holding")>>
        ELSE IF Gt(lowest10(v), v.price)
        THEN <<Signal(symbol, Close, v.atr, "Close: go lower then lowest10")>>
        ELSE <<None>>

\* ShortDecision with the stop measured from the holding-period high
ShortDecision_StopFromHigh(symbol, v) ==
    LET fist_fill == get_first_fill_event(v)
        last_fill == get_last_fill_event(v)
        hold_min == MaxOf(get_hist_bars_values(v.high, hold_days(fist_fill)))
    IN  IF Ge(Sub(Times(2, last_fill.fill_price), fist_fill.attr.atr),
              Times(2, v.price))
        THEN <<Signal(symbol, Extend, v.atr,
                    "Extend: go down 2 * atr since last sell")>>
        ELSE IF Lt(Add(hold_min, Times(2, fist_fill.attr.atr)), v.price)
        THEN <<Signal(symbol, Close, v.atr,
                    "Close: go up 2 * atr relative with the min during holding")>>
        ELSE IF Lt(highest10(v), v.price)
        THEN <<Signal(symbol, Close, v.atr, "Close: go upper then highest10")>>
        ELSE <<None>>

\* The branch "else:  # SELL"
ShortDecision(symbol, v) ==
    LET fist_fill == get_first_fill_event(v)
        last_fill == get_last_fill_event(v)
        hold_min == MinOf(get_hist_bars_values(v.low, hold_days(fist_fill)))
    IN  IF Ge(Sub(Times(2, last_fill.fill_price), fist_fill.attr.atr),
              Times(2, v.price))
        THEN <<Signal(symbol, Extend, v.atr,
                    "Extend: go down 2 * atr since last sell")>>
        ELSE IF Lt(Add(hold_min, Times(2, fist_fill.attr.atr)), v.price)
        THEN <<Signal(symbol, Close, v.atr,
                    "Close: go up 2 * atr relative with the min during holding")>>
        ELSE IF Lt(highest10(v), v.price)
        THEN <<Signal(symbol, Close, v.atr, "Close: go upper then highest10")>>
        ELSE <<None>>

\* OpenDecision with a non-strict breakout test
OpenDecision_NonStrict(symbol, v) ==
    IF Ge(v.price, highest20(v))
    THEN <<Signal(symbol, OpenLong, v.atr, "OpenLong: go up than highest20")>>
    ELSE IF Lt(v.price, lowest20(v)) /\ v.shortable
    THEN <<Signal(symbol, OpenShort, v.atr, "OpenShort: go down than lowest20")>>
    ELSE <<None>>

\* OpenDecision without the final "yield None"
OpenDecision_NoPlaceholder(symbol, v) ==
    IF Gt(v.price, highest20(v))
    THEN <<Signal(symbol, OpenLong, v.atr, "OpenLong: go up than highest20")>>
    ELSE IF Lt(v.price, lowest20(v)) /\ v.shortable
    THEN <<Signal(symbol, OpenShort, v.atr, "OpenShort: go down than lowest20")>>
    ELSE <<>>

\* The branch "else:  # open long/short"
OpenDecision(symbol, v) ==
    IF Gt(v.price, highest20(v))
    THEN <<Signal(symbol, OpenLong, v.atr, "OpenLong: go up than highest20")>>
    ELSE IF Lt(v.price, lowest20(v)) /\ v.shortable
    THEN <<Signal(symbol, OpenShort, v.atr, "OpenShort: go down than lowest20")>>
    ELSE <<None>>

\* can_short(symbol) is called only when the first two tests leave it to decide
ReadsCanShort(v) == ~Gt(v.price, highest20(v)) /\ Lt(v.price, lowest20(v))

---------------------------------------------------------------------------
(* The loop of handle *)

SymbolLists == {<<"s1", "s2">>}
PlateSets == {{}, {"s1"}}
Benchmarks == {"s2", "bm"}

\* Exceptions a lookup of the data handler raises
LookupErrors == {"KeyError", "OperationalError"}

Init ==
    /\ symbol_list \in SymbolLists
    /\ plate_symbols \in PlateSets
    /\ benchmark \in Benchmarks
    /\ hist_index \in MinHistIndex..MaxHistIndex
    /\ pos = 0
    /\ pc = "for"
    /\ view = NoView
    /\ err = "none"
    /\ trace = <<>>
    /\ out = <<>>

\* The loop variable
symbol == symbol_list[pos]

Config == <<symbol_list, plate_symbols, benchmark, hist_index>>

\* for symbol in self.symbol_list: the next symbol, or the end of the loop
\* and of the generator
ForNext ==
    /\ pc = "for"
    /\ IF pos < Len(symbol_list)
       THEN /\ pos' = pos + 1
            /\ pc' = "body"
       ELSE /\ pos' = pos
            /\ pc' = "done"
    /\ view' = NoView
    /\ err' = "none"
    /\ UNCHANGED <<Config, trace, out>>

\* The loop body ends (falls through or continue) after yielding ys
EndBody(exit, v, e, ys) ==
    /\ pc' = "for"
    /\ view' = v
    /\ err' = e
    /\ trace' = Append(trace, exit)
    /\ out' = out \o ys
    /\ UNCHANGED <<Config, pos>>

\* Exception e leaves the try block
Except(v, e) ==
    IF Caught(e)
    THEN EndBody("error", v, e, <<>>)
    ELSE /\ pc' = "raised"
         /\ view' = v
         /\ err' = e
         /\ UNCHANGED <<Config, pos, trace, out>>

\* The market data whose four extrema pass the NaN test
ValidViews == {m \in MarketViews(hist_index) : ~HasNaNExtrema(WithMarket(m))}

\* if symbol in plate_symbols or symbol == benchmark: continue
SkipSymbol ==
    /\ pc = "body"
    /\ Filtered(symbol)
    /\ EndBody("filter", NoView, "none", <<>>)

\* A lookup of lines 57-63 raises
LookupFails ==
    /\ pc = "body"
    /\ ~Filtered(symbol)
    /\ \E e \in LookupErrors : Except(NoView, e)

\* raise ValueError('get_hist_bars_values NaN')
NaNExtrema ==
    /\ pc = "body"
    /\ ~Filtered(symbol)
    /\ \E m \in MarketViews(hist_index) \ ValidViews :
        Except(WithMarket(m), "ValueError")

\* if hist_fill_events_len > 4: continue
FillGuard ==
    /\ pc = "body"
    /\ ~Filtered(symbol)
    /\ \E m \in ValidViews, f \in Positions :
        LET v == [WithMarket(m) EXCEPT !.fills = f]
        IN  /\ has_position(v)
            /\ TooManyFills(get_fill_events_len(v))
            /\ EndBody("guard", v, "none", <<>>)

ManageLong ==
    /\ pc = "body"
    /\ ~Filtered(symbol)
    /\ \E m \in ValidViews, f \in Positions :
        LET v == [WithMarket(m) EXCEPT !.fills = f]
        IN  /\ has_position(v)
            /\ ~TooManyFills(get_fill_events_len(v))
            /\ get_first_fill_event(v).direction = BUY
            /\ EndBody("long", v, "none", LongDecision(symbol, v))

ManageShort ==
    /\ pc = "body"
    /\ ~Filtered(symbol)
    /\ \E m \in ValidViews, f \in Positions :
        LET v == [WithMarket(m) EXCEPT !.fills = f]
        IN  /\ has_position(v)
            /\ ~TooManyFills(get_fill_events_len(v))
            /\ get_first_fill_event(v).direction # BUY
            /\ EndBody("short", v, "none", ShortDecision(symbol, v))

OpenPosition ==
    /\ pc = "body"
    /\ ~Filtered(symbol)
    /\ \E m \in ValidViews, s \in BOOLEAN :
        LET v == [WithMarket(m) EXCEPT !.shortable = s]
        IN  /\ ~has_position(v)
            /\ s => ReadsCanShort(v)
            /\ EndBody("flat", v, "none", OpenDecision(symbol, v))

Next ==
    \/ ForNext
    \/ SkipSymbol
    \/ LookupFails
    \/ NaNExtrema
    \/ FillGuard
    \/ ManageLong
    \/ ManageShort
    \/ OpenPosition

Spec == Init /\ [][Next]_vars

---------------------------------------------------------------------------
(* Vocabulary of the properties *)

\* One iteration of the loop body runs to its end
BodyEnds == pc = "body" /\ pc' = "for"

\* The symbol is neither a plate symbol nor the benchmark
Tradable == symbol \notin plate_symbols /\ symbol # benchmark

\* All lookups of the iteration answered, and none of the four rolling
\* extrema of v is NaN
Validated(v, e) ==
    /\ e = "none"
    /\ v.high # <<>>
    /\ ~IsNaN(highest10(v)) /\ ~IsNaN(lowest10(v))
    /\ ~IsNaN(highest20(v)) /\ ~IsNaN(lowest20(v))

\* v holds a position of at most four fills whose first fill is in direction d
Managed(v, d) ==
    /\ Len(v.fills) >= 1
    /\ Len(v.fills) <= 4
    /\ v.fills[1].direction = d

\* The iteration yields exactly one value, a Signal of the kind for the symbol
EmitsSignal(kind) ==
    /\ Len(out') = Len(out) + 1
    /\ SubSeq(out', 1, Len(out)) = out
    /\ out'[Len(out')].signal_type = kind
    /\ out'[Len(out')].symbol = symbol

\* As EmitsSignal, and the signal carries the reason
EmitsSignalFor(kind, reason) ==
    /\ EmitsSignal(kind)
    /\ out'[Len(out')].attr.reason = reason

\* The iteration yields no Signal: nothing, or the placeholder None
EmitsNoSignal == out' = out \/ out' = Append(out, None)

\* The state after an iteration of a tradable symbol whose lookups answered
\* and whose extrema are numbers
AfterValidated ==
    /\ pc = "for"
    /\ pos >= 1
    /\ Tradable
    /\ Validated(view, err)

Last(s) == s[Len(s)]

\* Twice the price from which a long position is extended: the last fill
\* price plus half the volatility recorded at the first fill
LongExtendTwice(v) == Add(Times(2, Last(v.fills).fill_price), v.fills[1].attr.atr)

\* Twice the price down to which a short position is extended
ShortExtendTwice(v) == Sub(Times(2, Last(v.fills).fill_price), v.fills[1].attr.atr)

\* The highs and lows of the holding period: the bars from the first fill's
\* bar index to the current bar index, both included
HoldingHighs(v) == SubSeq(v.high, v.fills[1].attr.index + 1, hist_index + 1)
HoldingLows(v) == SubSeq(v.low, v.fills[1].attr.index + 1, hist_index + 1)

\* The long stop: holding-period max high - 2 * first-fill volatility > price
LongStop(v) ==
    Gt(Sub(MaxOf(HoldingHighs(v)), Times(2, v.fills[1].attr.atr)), v.price)

\* The short stop: holding-period min low + 2 * first-fill volatility < price
ShortStop(v) ==
    Lt(Add(MinOf(HoldingLows(v)), Times(2, v.fills[1].attr.atr)), v.price)

---------------------------------------------------------------------------
(* C1 *)

C1_Step ==
    (BodyEnds /\ Tradable /\ Validated(view', err') /\ Len(view'.fills) = 0)
    => /\ IF Gt(view'.price, highest20(view'))
          THEN EmitsSignal(OpenLong)
          ELSE IF Lt(view'.price, lowest20(view')) /\ view'.shortable
          THEN EmitsSignal(OpenShort)
          ELSE EmitsNoSignal
       /\ (view'.price = highest20(view') \/ view'.price = lowest20(view'))
            => EmitsNoSignal
       /\ (Lt(view'.price, lowest20(view')) /\ ~view'.shortable)
            => EmitsNoSignal

\* C1: a tradable symbol with no open position and four non-NaN rolling
\* extrema yields OpenLong if price > 20-bar high, otherwise OpenShort if
\* price < 20-bar low and the symbol is shortable, otherwise no signal; a
\* price equal to the 20-bar high or low, and a price below the 20-bar low
\* on a non-shortable symbol, yield no signal.
C1_FlatEntry == [][C1_Step]_vars

\* A flat symbol whose price equals its 20-bar high got no signal
C1_Witness ==
    /\ AfterValidated
    /\ Len(view.fills) = 0
    /\ view.price = highest20(view)
    /\ Len(out) = 1
    /\ out[1] = None

---------------------------------------------------------------------------
(* C2 *)

C2_Step ==
    (/\ BodyEnds /\ Tradable /\ Validated(view', err')
     /\ Managed(view', BUY)
     /\ Ge(Times(2, view'.price), LongExtendTwice(view')))
    => EmitsSignal(Extend)

---------------------------------------------------------------------------
(* C3 *)

C3_Step ==
    (/\ BodyEnds /\ Tradable /\ Validated(view', err')
     /\ Managed(view', BUY)
     /\ ~Ge(Times(2, view'.price), LongExtendTwice(view')))
    => IF LongStop(view')
       THEN EmitsSignalFor(Close,
                "Close: go down 2 * atr relative with the max during holding")
       ELSE IF Lt(view'.price, lowest10(view'))
       THEN EmitsSignalFor(Close, "Close: go lower then lowest10")
       ELSE EmitsNoSignal

\* C3: for a long position below the Extend threshold: if the maximum high
\* of the bars from the first fill's bar to the current bar, minus
\* 2 * first-fill volatility, is > price, the signal is Close with the
\* stop-loss reason, also when the price is below the 10-bar low; otherwise
\* if price < 10-bar low it is Close with the 10-bar-low reason; otherwise
\* there is no signal.
C3_LongClose == [][C3_Step]_vars

\* Both close conditions held and the Close carries the stop-loss reason
C3_Witness ==
    /\ AfterValidated
    /\ Managed(view, BUY)
    /\ LongStop(view)
    /\ Lt(view.price, lowest10(view))
    /\ Len(out) = 1
    /\ out[1].signal_type = Close
    /\ out[1].attr.reason =
         "Close: go down 2 * atr relative with the max during holding"

---------------------------------------------------------------------------
(* C4 *)

Neg(x) == IF IsNaN(x) THEN NaN ELSE 0 - x

\* v with every price negated, highs and lows swapped, Buy and Sell swapped
Mirror(v) ==
    [price |-> Neg(v.price), atr |-> v.atr,
     high |-> [k \in DOMAIN v.low |-> Neg(v.low[k])],
     low |-> [k \in DOMAIN v.high |-> Neg(v.high[k])],
     fills |-> [k \in DOMAIN v.fills |->
                  [direction |-> IF v.fills[k].direction = BUY THEN SELL ELSE BUY,
                   fill_price |-> Neg(v.fills[k].fill_price),
                   attr |-> v.fills[k].attr]],
     shortable |-> v.shortable]

\* The values the iteration yielded
Emitted == SubSeq(out', Len(out) + 1, Len(out'))

KindsOf(ys) == [k \in DOMAIN ys |-> ys[k].signal_type]

C4_Step ==
    /\ (/\ BodyEnds /\ Tradable /\ Validated(view', err')
        /\ Managed(view', SELL))
       => /\ IF Le(Times(2, view'.price), ShortExtendTwice(view'))
             THEN EmitsSignal(Extend)
             ELSE IF ShortStop(view')
             THEN EmitsSignalFor(Close,
                      "Close: go up 2 * atr relative with the min during holding")
             ELSE IF Gt(view'.price, highest10(view'))
             THEN EmitsSignalFor(Close, "Close: go upper then highest10")
             ELSE EmitsNoSignal
          /\ KindsOf(Emitted) = KindsOf(LongDecision(symbol, Mirror(view')))
    /\ (/\ BodyEnds /\ Tradable /\ Validated(view', err')
        /\ Managed(view', BUY))
       => KindsOf(Emitted) = KindsOf(ShortDecision(symbol, Mirror(view')))

\* C4: for a short position (first fill Sell, at most 4 fills, non-NaN
\* extrema) the signal is Extend if price <= last-fill price - 0.5 *
\* first-fill volatility; otherwise Close if holding-period min low + 2 *
\* first-fill volatility < price; otherwise Close if price > 10-bar high;
\* otherwise none.  And the long branch decides on the mirrored inputs
\* (prices negated, highs and lows swapped, Buy and Sell swapped) the same
\* signal kind as the short branch on the inputs, and the other way round.
C4_ShortMirror == [][C4_Step]_vars

\* A short position above the Extend threshold whose two close conditions
\* both held was closed for the stop
C4_Witness ==
    /\ AfterValidated
    /\ Managed(view, SELL)
    /\ ShortStop(view)
    /\ Gt(view.price, highest10(view))
    /\ Len(out) = 1
    /\ out[1].signal_type = Close
    /\ out[1].attr.reason =
         "Close: go up 2 * atr relative with the min during holding"

---------------------------------------------------------------------------
(* C5 *)

C5_Step ==
    (BodyEnds /\ Tradable /\ Validated(view', err') /\ Len(view'.fills) > 4)
    => out' = out

\* C5: a symbol whose fill count exceeds 4 yields nothing, whichever the
\* direction of its first fill, the price and the extrema.
C5_FillCap == [][C5_Step]_vars

\* The first symbol has five fills in a long position whose stop condition
\* holds, and its iteration yielded nothing
C5_Witness ==
    /\ AfterValidated
    /\ pos = 1
    /\ Len(view.fills) > 4
    /\ view.fills[1].direction = BUY
    /\ LongStop(view)
    /\ out = <<>>

---------------------------------------------------------------------------
(* C6 *)

\* A lookup raised KeyError, or one of the four rolling extrema is NaN
Recoverable(v, e) ==
    \/ e = "KeyError"
    \/ /\ e \in {"none", "ValueError"}
       /\ v.high # <<>>
       /\ \/ IsNaN(highest10(v)) \/ IsNaN(lowest10(v))
          \/ IsNaN(highest20(v)) \/ IsNaN(lowest20(v))

\* What handle yields for a symbol list that holds only sym
Alone(sym, v, e) ==
    IF sym \in plate_symbols \/ sym = benchmark THEN <<>>
    ELSE IF ~Validated(v, e) THEN <<>>
    ELSE IF Len(v.fills) = 0 THEN OpenDecision(sym, v)
    ELSE IF Len(v.fills) > 4 THEN <<>>
    ELSE IF v.fills[1].direction = BUY THEN LongDecision(sym, v)
    ELSE ShortDecision(sym, v)

C6_Step ==
    /\ (pc = "body" /\ pc' # "body" /\ Recoverable(view', err'))
       => (pc' = "for" /\ out' = out /\ pos' = pos)
    /\ (BodyEnds /\ \E k \in DOMAIN trace : trace[k] = "error")
       => out' = out \o Alone(symbol, view', err')
    /\ pc' = "done" => Len(trace') = Len(symbol_list)

\* C6: an iteration in which a lookup raises KeyError or one of the four
\* rolling extrema is NaN yields nothing and raises nothing, the loop goes
\* on to the next symbol, every symbol after it yields what it would yield
\* alone, and the generator ends only after every symbol of the list.
C6_FailureIsolated == [][C6_Step]_vars

\* The first symbol failed and the second got its signal
C6_Witness ==
    /\ AfterValidated
    /\ pos = 2
    /\ trace[1] = "error"
    /\ Len(out) = 1
    /\ out[1] # None
    /\ out[1].symbol = symbol_list[2]

---------------------------------------------------------------------------
(* C7 *)

C7_Step ==
    /\ (/\ pc = "body" /\ pc' # "body" /\ Tradable
        /\ err' \in {"none", "ValueError"}
        /\ view'.high # <<>>
        /\ (IsNaN(view'.atr) \/ IsNaN(view'.price)))
       => EmitsNoSignal
    /\ \A k \in DOMAIN out' :
         out'[k] # None => ~IsNaN(out'[k].attr.atr)

\* C7: a symbol whose current volatility or current close price is NaN
\* yields no signal, and no yielded signal carries a NaN volatility.
C7_AtrPriceValidated == [][C7_Step]_vars

---------------------------------------------------------------------------
(* C8 *)

\* The eight reasons, each with its signal kind and the position it manages
\* ("" for no position)
Reasons ==
    {<<"Extend: increase more the 0.5 * atr since last buy", Extend, BUY>>,
     <<"Close: go down 2 * atr relative with the max during holding", Close, BUY>>,
     <<"Close: go lower then lowest10", Close, BUY>>,
     <<"Extend: go down 2 * atr since last sell", Extend, SELL>>,
     <<"Close: go up 2 * atr relative with the min during holding", Close, SELL>>,
     <<"Close: go upper then highest10", Close, SELL>>,
     <<"OpenLong: go up than highest20", OpenLong, "">>,
     <<"OpenShort: go down than lowest20", OpenShort, "">>}

Side(v) == IF Len(v.fills) = 0 THEN "" ELSE v.fills[1].direction

C8_Step ==
    /\ Cardinality({r[1] : r \in Reasons}) = 8
    /\ \A k \in DOMAIN out' :
         out'[k] # None =>
            /\ out'[k].confidence = 1
            /\ out'[k].attr.index = hist_index + 1
            /\ out'[k].attr.rule_id = "TurtleStrategy"
            /\ \E r \in Reasons :
                 r[1] = out'[k].attr.reason /\ r[2] = out'[k].signal_type
    /\ (BodyEnds /\ Len(out') > Len(out) /\ Last(out') # None)
       => /\ Last(out').attr.atr = view'.atr
          /\ \E r \in Reasons :
               /\ r[1] = Last(out').attr.reason
               /\ r[2] = Last(out').signal_type
               /\ r[3] = Side(view')

\* C8: every yielded signal has confidence 1.0, index = hist_index + 1,
\* atr = the symbol's current volatility, rule_id = "TurtleStrategy" and one
\* of eight pairwise distinct reasons, and the reason fixes the signal kind
\* and the direction of the position.
C8_SignalAttributes == [][C8_Step]_vars

\* Two signals were yielded, the second one closing a short position
C8_Witness ==
    /\ AfterValidated
    /\ Len(out) = 2
    /\ out[1] # None
    /\ out[2] # None
    /\ out[2].attr.reason = "Close: go upper then highest10"
    /\ out[2].attr.atr = 3
    /\ out[2].attr.index = hist_index + 1

---------------------------------------------------------------------------
(* C9 *)

Signals == {k \in DOMAIN out : out[k] # None}

Place(sym) == CHOOSE i \in DOMAIN symbol_list : symbol_list[i] = sym

\* C9: the signals of one call are in symbol-list order with at most one
\* per symbol, and none is for a plate symbol or for the benchmark.
C9_OnePerSymbolInOrder ==
    /\ \A k \in Signals :
         /\ out[k].symbol \in Range(symbol_list)
         /\ out[k].symbol \notin plate_symbols
         /\ out[k].symbol # benchmark
    /\ \A j, k \in Signals :
         j < k => Place(out[j].symbol) < Place(out[k].symbol)

\* The call ended with the first symbol a plate symbol and one signal, for
\* the second symbol
C9_Witness ==
    /\ pc = "done"
    /\ symbol_list[1] \in plate_symbols
    /\ Len(out) = 1
    /\ out[1] # None
    /\ out[1].symbol = symbol_list[2]

---------------------------------------------------------------------------
(* C10 *)

\* The iteration reaches one of the three decision branches
Decides(v, e) == Tradable /\ Validated(v, e) /\ Len(v.fills) <= 4

Decided(t) == {k \in DOMAIN t : t[k] \in {"flat", "long", "short"}}

C10_Step ==
    /\ BodyEnds
       => /\ Len(out') = Len(out) + (IF Decides(view', err') THEN 1 ELSE 0)
          /\ SubSeq(out', 1, Len(out)) = out
    /\ pc' = "raised" => out' = out
    /\ Len(out') = Cardinality(Decided(trace'))

\* C10: an iteration that reaches a decision branch (flat, long or short)
\* yields exactly one value, a Signal or None; an iteration skipped by the
\* plate/benchmark filter, by the NaN test, by a lookup failure or by the
\* fill-count guard yields nothing; so the output is as long as the number
\* of symbols that reached a decision branch.
C10_OutputLength == [][C10_Step]_vars

\* The first symbol was stopped by the fill-count guard and the second, a
\* flat symbol, yielded None: one element for two symbols
C10_Witness ==
    /\ pc = "for"
    /\ pos = 2
    /\ trace = <<"guard", "flat">>
    /\ out = <<None>>

===========================================================================
